---- MODULE Spec2Model ----
(***************************************************************************)
(* Chunk audio generation of open-reader.                                  *)
(*                                                                         *)
(* The repository holds two implementations of the pipeline:               *)
(*   - apps/backend: chunks keyed by integer id, in-flight markers and the *)
(*     audio cache kept in Redis, audio in R2/S3, generation run as        *)
(*     FastAPI background tasks (routers/tts.py, services/*.py);           *)
(*   - apps/python:  chunks keyed by UUID, in-flight chunks kept in the    *)
(*     in-memory dict ChunkProcessor.processing_chunks, generation run as  *)
(*     asyncio tasks (main.py, chunk_processor.py).                        *)
(* A behaviour runs one of them (variable pipeline), or exercises the      *)
(* provider selector TTSService.generate_speech on its own.                *)
(***************************************************************************)
EXTENDS Integers, Sequences, FiniteSets, TLC

VARIABLES
    pipeline,           \* which implementation this behaviour runs
    \* ---- apps/backend ----
    audio_cache,        \* Redis audio:chunk:<id>      -> audio key, or None
    processing,         \* Redis processing:chunk:<id> keys that exist
    buffer_queue,       \* Redis buffer:document:<id>  -> list of chunk ids
    objects,            \* keys of the audio objects present in the bucket
    has_audio,          \* TextChunk.has_audio
    audio_file_key,     \* TextChunk.audio_file_key
    claiming,           \* the chunk of a generate_tts handler of another server
                        \* instance that has read the marker (line 38) and has
                        \* not yet set it (line 42), or NoSuchChunk
    tasks,              \* background tasks, in the order of add_task
    last,               \* what generate_tts_background did, if the step just
                        \* taken finished one: the audio it got, whether the
                        \* upload succeeded, whether the record update raised
    \* ---- apps/python ----
    chunks,             \* the chunks table: id -> status, audioUrl, error_message
    processing_chunks,  \* ChunkProcessor.processing_chunks
    calls,              \* process_chunk coroutines, in the order of creation
    batch,              \* the process_chunks_batch call, if one runs; completed:
                        \* the chunks its process_chunk calls have brought to
                        \* 'completed' so far
    \* ---- provider selector on its own ----
    sel,                \* the last generate_speech call, if any (a sequence of at
                        \* most one record): the providers' behaviour, the
                        \* providers invoked and the audio returned
    \* ---- apps/backend: PDF processing ----
    document_status,    \* Document.status, by document id
    document_chunks,    \* the text_chunks rows: document_id, chunk_index, and the
                        \* run of process_pdf_background that inserted the row
    pdf_tasks,          \* documents with a process_pdf_background task added and
                        \* not yet run
    runs                \* process_pdf_background tasks added so far

pyVars == <<chunks, processing_chunks, calls, batch>>
pdfVars == <<document_status, document_chunks, pdf_tasks, runs>>
backendVars == <<audio_cache, processing, buffer_queue, objects, has_audio,
                 audio_file_key, claiming, tasks, last>>

None == "None"
\* Redis GET of a key that does not exist; a column that is NULL
NoKey == <<>>

\* ------------------------------------------------------------------ bounds
MaxTasks == 3           \* background tasks added in one behaviour
MaxCalls == 3           \* process_chunk coroutines created in one behaviour
MaxBatch == 3           \* chunks in the list given to process_chunks_batch
MaxRuns == 3            \* process_pdf_background tasks added in one behaviour
MaxExpiryTasks == 2     \* background tasks added in one behaviour of SpecExpiry

\* ------------------------------------------------- apps/backend: the tables
\* text_chunks, by id: document 1 holds four chunks, document 2 holds one.
text_chunks ==
    <<[document_id |-> 1, chunk_index |-> 0],
      [document_id |-> 1, chunk_index |-> 1],
      [document_id |-> 1, chunk_index |-> 2],
      [document_id |-> 1, chunk_index |-> 3],
      [document_id |-> 2, chunk_index |-> 0]>>

ChunkIds == DOMAIN text_chunks
Documents == {text_chunks[c].document_id : c \in ChunkIds}
\* a chunk id no row has: the 404 path
NoSuchChunk == 0
\* audio/<uuid4>.mp3: a fresh key for every task
AudioKey(t) == <<"audio", t>>

\* ------------------------------------------------- provider adapters
\* What a backend does when called.
TogetherBehaviours == {"audio", "empty", "exception"}
CartesiaBehaviours == {"nokey", "audio", "empty", "http_error", "exception"}
DemoBehaviours == {"audio", "empty", "http_error", "exception"}
Behaviours ==
    [together : TogetherBehaviours, cartesia : CartesiaBehaviours, demo : DemoBehaviours]

Empty == "empty"
Dummy == "dummy"

\* Python truthiness of Optional[bytes]: None and b"" are falsy.
Truthy(a) == a \notin {None, Empty}

generate_speech_together_sonic(b) ==
    CASE b = "audio" -> "together"
      [] b = "empty" -> Empty
      [] OTHER -> None

\* The call did not return: the exception left it.
Raised == "raised"

\* A variant of generate_speech_cartesia_direct without the try/except of
\* lines 50-82.
generate_speech_cartesia_direct_uncaught(b) ==
    CASE b = "nokey" -> None
      [] b = "audio" -> "cartesia"
      [] b = "empty" -> Empty
      [] b = "exception" -> Raised
      [] OTHER -> None

generate_speech_cartesia_direct(b) ==
    CASE b = "nokey" -> None
      [] b = "audio" -> "cartesia"
      [] b = "empty" -> Empty
      [] OTHER -> None

\* Lines 46-48 return before requests.post (line 72) is reached: whether the
\* Cartesia backend gets a request.
cartesia_request_sent(b) == b # "nokey"

_generate_dummy_audio == Dummy

generate_speech_eleven_labs_demo(b) ==
    CASE b = "audio" -> "demo"
      [] b = "empty" -> Empty
      [] b = "http_error" -> None
      [] OTHER -> _generate_dummy_audio

\* The provider called at each position of the chain.
Chain == <<"together", "cartesia", "demo">>

\* A variant of generate_speech whose second test (line 128) reads the primary's
\* result instead of the current one.
generate_speech_stale_test(o) ==
    LET a1 == generate_speech_together_sonic(o.together)
        c1 == <<"together">>
        a2 == IF ~Truthy(a1) THEN generate_speech_cartesia_direct(o.cartesia) ELSE a1
        c2 == IF ~Truthy(a1) THEN Append(c1, "cartesia") ELSE c1
        a3 == IF ~Truthy(a1) THEN generate_speech_eleven_labs_demo(o.demo) ELSE a2
        c3 == IF ~Truthy(a1) THEN Append(c2, "demo") ELSE c2
    IN  [audio |-> a3, calls |-> c3]

\* generate_speech: the returned audio and the providers invoked, in order.
generate_speech(o) ==
    LET a1 == generate_speech_together_sonic(o.together)
        c1 == <<"together">>
        a2 == IF ~Truthy(a1) THEN generate_speech_cartesia_direct(o.cartesia) ELSE a1
        c2 == IF ~Truthy(a1) THEN Append(c1, "cartesia") ELSE c1
        a3 == IF ~Truthy(a2) THEN generate_speech_eleven_labs_demo(o.demo) ELSE a2
        c3 == IF ~Truthy(a2) THEN Append(c2, "demo") ELSE c2
    IN  [audio |-> a3, calls |-> c3]

\* What generate_speech can return.
SpeechResults == {generate_speech(o).audio : o \in Behaviours}

\* ------------------------------------------------- Redis, S3
get_audio_cache(c) == audio_cache[c]
\* A variant of set_audio_cache that writes nothing.
set_audio_cache_dropped(c, audio_key) == audio_cache
set_audio_cache(c, audio_key) == [audio_cache EXCEPT ![c] = audio_key]
get_processing_status(c) == IF c \in processing THEN "processing" ELSE None
set_processing_status(c) == processing \cup {c}
delete_processing_status(c) == processing \ {c}
get_buffer_queue(d) == buffer_queue[d]
file_exists(k) == k \in objects

\* ------------------------------------------------- background tasks
QueuedTask(c, origin, first) ==
    [chunk |-> c, pc |-> "queued", origin |-> origin, first |-> first]
DoneTask == [chunk |-> NoSuchChunk, pc |-> "done", origin |-> "none", first |-> 0]

TaskIds == 1..Len(tasks)
NoOutcome == [audio |-> None, upload |-> FALSE, threw |-> FALSE, fresh |-> FALSE]

\* What can happen to one generate_tts_background: the audio generate_speech
\* returns; whether upload_file succeeds (asked only for truthy audio); whether
\* the record update (lines 75-79) raises (reached only after an upload).
Outcomes ==
    {x \in [audio : SpeechResults, upload : BOOLEAN, threw : BOOLEAN, fresh : {TRUE}] :
        /\ x.upload => Truthy(x.audio)
        /\ x.threw => x.upload}

\* No task is between its last statement and its return.
Settled == ~last.fresh

Running(c) == {t \in TaskIds : tasks[t].pc = "running" /\ tasks[t].chunk = c}

\* ------------------------------------------------- generate_tts
\* A variant of generate_tts_check that trusts the cache entry without asking
\* the bucket.
generate_tts_check_trusting(c, audio_url) ==
    IF c \notin ChunkIds THEN "404"
    ELSE IF get_audio_cache(c) # NoKey /\ audio_url # None THEN "cached"
    ELSE IF get_processing_status(c) = "processing" THEN "409"
    ELSE "claim"

\* A variant of generate_tts_check without the test of lines 38-40.
generate_tts_check_unguarded(c, audio_url) ==
    IF c \notin ChunkIds THEN "404"
    ELSE IF /\ get_audio_cache(c) # NoKey
            /\ file_exists(get_audio_cache(c))
            /\ audio_url # None
         THEN "cached"
    ELSE "claim"

\* get_presigned_url: the URL, or None when signing raises.
PresignedUrls == {"url", None}

\* Lines 24-40: the lookups that decide the response; audio_url is what
\* get_presigned_url returns if it is asked.
generate_tts_check(c, audio_url) ==
    IF c \notin ChunkIds THEN "404"
    ELSE IF /\ get_audio_cache(c) # NoKey
            /\ file_exists(get_audio_cache(c))
            /\ audio_url # None
         THEN "cached"
    ELSE IF get_processing_status(c) = "processing" THEN "409"
    ELSE "claim"

\* A variant of next_chunks whose query has no document filter.
next_chunks_any_document(c) ==
    {n \in ChunkIds :
        /\ text_chunks[n].chunk_index > text_chunks[c].chunk_index
        /\ text_chunks[n].chunk_index <= text_chunks[c].chunk_index + 2}

\* Lines 47-51: the rows the prefetch query returns, in id order.
next_chunks(c) ==
    {n \in ChunkIds :
        /\ text_chunks[n].document_id = text_chunks[c].document_id
        /\ text_chunks[n].chunk_index > text_chunks[c].chunk_index
        /\ text_chunks[n].chunk_index <= text_chunks[c].chunk_index + 2}

\* Line 54: the rows of the query that get a task.
prefetch_targets(c) ==
    IF c \notin {get_buffer_queue(text_chunks[c].document_id)[i] :
                    i \in DOMAIN get_buffer_queue(text_chunks[c].document_id)}
    THEN {n \in next_chunks(c) : get_audio_cache(n) = NoKey}
    ELSE {}

RECURSIVE SetToSeq(_)
SetToSeq(S) ==
    IF S = {} THEN <<>>
    ELSE LET m == CHOOSE x \in S : \A y \in S : x <= y
         IN  <<m>> \o SetToSeq(S \ {m})

\* A variant of AddTasks whose tasks do not wait for one another (each handed
\* to asyncio.create_task).
AddTasks_unordered(ts, cs, origin, first) ==
    ts \o [i \in 1..Len(cs) |-> QueuedTask(cs[i], origin, Len(ts) + i)]

\* add_task for every chunk of cs (ascending), as one request's tasks.
AddTasks(ts, cs, origin, first) ==
    ts \o [i \in 1..Len(cs) |-> QueuedTask(cs[i], origin, first)]

\* A variant of Dispatch that adds the prefetch tasks ahead of the chunk's own.
Dispatch_prefetch_first(c) ==
    /\ Len(tasks) + 1 + Cardinality(prefetch_targets(c)) <= MaxTasks
    /\ processing' = set_processing_status(c)
    /\ tasks' = AddTasks(AddTasks(tasks, SetToSeq(prefetch_targets(c)), "prefetch",
                                  Len(tasks) + 1),
                         <<c>>, "direct", Len(tasks) + 1)

\* Lines 42-57: the marker is set, the chunk's task and the prefetch tasks added.
Dispatch(c) ==
    /\ Len(tasks) + 1 + Cardinality(prefetch_targets(c)) <= MaxTasks
    /\ processing' = set_processing_status(c)
    /\ tasks' = AddTasks(AddTasks(tasks, <<c>>, "direct", Len(tasks) + 1),
                         SetToSeq(prefetch_targets(c)), "prefetch", Len(tasks) + 1)

\* generate_tts run through without another instance's step in between.
\* A 404, cached or 409 response changes nothing.
GenerateTTS(c, audio_url) ==
    /\ pipeline = "backend"
    /\ Settled
    /\ IF generate_tts_check(c, audio_url) = "claim"
       THEN Dispatch(c)
       ELSE UNCHANGED <<processing, tasks>>
    /\ last' = NoOutcome
    /\ UNCHANGED <<pipeline, audio_cache, buffer_queue, objects,
                   has_audio, audio_file_key, claiming, sel, pdfVars, pyVars>>

\* Lines 24-40 on an instance that is then overtaken: Redis answered the GET
\* of line 38, the SETEX of line 42 is not yet sent.
GenerateTTSCheck(c, audio_url) ==
    /\ pipeline = "backend"
    /\ Settled
    /\ claiming = NoSuchChunk
    /\ generate_tts_check(c, audio_url) = "claim"
    /\ claiming' = c
    /\ last' = NoOutcome
    /\ UNCHANGED <<pipeline, audio_cache, processing, buffer_queue, objects,
                   has_audio, audio_file_key, tasks, sel, pdfVars, pyVars>>

\* Lines 42-57 on that instance.
GenerateTTSClaim ==
    /\ pipeline = "backend"
    /\ Settled
    /\ claiming # NoSuchChunk
    /\ Dispatch(claiming)
    /\ claiming' = NoSuchChunk
    /\ last' = NoOutcome
    /\ UNCHANGED <<pipeline, audio_cache, buffer_queue, objects,
                   has_audio, audio_file_key, sel, pdfVars, pyVars>>

\* ------------------------------------------------- get_tts_status
NoResponse == [status |-> "404", audio_url |-> None, has_audio |-> FALSE]

\* A variant of get_tts_status that takes the cache entry's word for the object.
get_tts_status_trusting(c, audio_url) ==
    IF c \notin ChunkIds THEN NoResponse
    ELSE IF get_audio_cache(c) # NoKey
         THEN [status |-> "completed", audio_url |-> audio_url, has_audio |-> TRUE]
    ELSE IF get_processing_status(c) = "processing"
         THEN [status |-> "processing", audio_url |-> None, has_audio |-> FALSE]
    ELSE [status |-> "not_generated", audio_url |-> None, has_audio |-> has_audio[c]]

\* Lines 94-122: the response; audio_url is what get_presigned_url returns if
\* it is asked.
get_tts_status(c, audio_url) ==
    IF c \notin ChunkIds THEN NoResponse
    ELSE IF get_audio_cache(c) # NoKey /\ file_exists(get_audio_cache(c))
         THEN [status |-> "completed", audio_url |-> audio_url, has_audio |-> TRUE]
    ELSE IF get_processing_status(c) = "processing"
         THEN [status |-> "processing", audio_url |-> None, has_audio |-> FALSE]
    ELSE [status |-> "not_generated", audio_url |-> None, has_audio |-> has_audio[c]]

\* The handler reads and answers: it writes nothing.
GetTTSStatus(c, audio_url) ==
    /\ pipeline = "backend"
    /\ Settled
    /\ get_tts_status(c, audio_url).status \in
          {"404", "completed", "processing", "not_generated"}
    /\ UNCHANGED <<pipeline, backendVars, pyVars, sel, pdfVars>>

\* ------------------------------------------------- generate_batch_tts
\* Line 133: the rows whose id is in chunk_ids.
batch_rows(chunk_ids) == chunk_ids \cap ChunkIds

\* Lines 137-143: the rows that get the marker and a task.
batch_accepted(chunk_ids) ==
    {c \in batch_rows(chunk_ids) :
        /\ get_audio_cache(c) = NoKey \/ ~file_exists(get_audio_cache(c))
        /\ get_processing_status(c) # "processing"}

\* Line 145: the number the response reports.
batch_reported(chunk_ids) == Cardinality(batch_rows(chunk_ids))

\* The request bodies tried: the last chunk of each document and an unknown id.
BatchRequests ==
    SUBSET {NoSuchChunk, Len(text_chunks) - 1, Len(text_chunks)} \ {{}}

GenerateBatchTTS(chunk_ids) ==
    /\ pipeline = "backend"
    /\ Settled
    /\ Len(tasks) + Cardinality(batch_accepted(chunk_ids)) <= MaxTasks
    /\ processing' = processing \cup batch_accepted(chunk_ids)
    /\ tasks' = AddTasks(tasks, SetToSeq(batch_accepted(chunk_ids)), "batch",
                         Len(tasks) + 1)
    /\ last' = NoOutcome
    /\ UNCHANGED <<pipeline, audio_cache, buffer_queue, objects,
                   has_audio, audio_file_key, claiming, sel, pdfVars, pyVars>>

\* ------------------------------------------------- generate_tts_background
\* Starlette runs one request's tasks in add_task order, each awaited.
TaskStart(t) ==
    /\ pipeline = "backend"
    /\ Settled
    /\ t \in TaskIds
    /\ tasks[t].pc = "queued"
    /\ \A u \in tasks[t].first .. (t - 1) : tasks[u].pc = "done"
    /\ tasks' = [tasks EXCEPT ![t].pc = "running"]
    /\ last' = NoOutcome
    /\ UNCHANGED <<pipeline, audio_cache, processing, buffer_queue, objects,
                   has_audio, audio_file_key, claiming, sel, pdfVars, pyVars>>

\* A variant of the except clause that only logs.
OnException_log_only(c) == processing

\* Lines 85-87.
OnException(c) == delete_processing_status(c)

\* A variant of upload_recorded without the test of line 74.
upload_recorded_unchecked(x) == Truthy(x.audio) /\ ~x.threw

\* Lines 74-81: the record update and the cache entry are reached after a
\* successful upload, the cache entry unless the record update raised.
upload_recorded(x) == x.upload /\ ~x.threw

\* Lines 63-87, from the return of generate_speech to the last statement.
TaskFinish(t) ==
    /\ pipeline = "backend"
    /\ Settled
    /\ t \in TaskIds
    /\ tasks[t].pc = "running"
    /\ \E x \in Outcomes :
        LET c == tasks[t].chunk
            audio_key == AudioKey(t)
            recorded == upload_recorded(x)
        IN  /\ objects' = IF x.upload THEN objects \cup {audio_key} ELSE objects
            /\ has_audio' = IF recorded THEN [has_audio EXCEPT ![c] = TRUE] ELSE has_audio
            /\ audio_file_key' = IF recorded
                                 THEN [audio_file_key EXCEPT ![c] = audio_key]
                                 ELSE audio_file_key
            /\ audio_cache' = IF recorded
                              THEN set_audio_cache(c, audio_key)
                              ELSE audio_cache
            /\ processing' = IF x.threw THEN OnException(c)
                             ELSE delete_processing_status(c)
            /\ last' = x
    /\ tasks' = [tasks EXCEPT ![t].pc = "returning"]
    /\ UNCHANGED <<pipeline, buffer_queue, claiming, sel, pdfVars, pyVars>>

\* The coroutine returns to Starlette, which goes on to the request's next
\* task. It touches nothing shared, so it is taken before any other step.
TaskReturn(t) ==
    /\ pipeline = "backend"
    /\ t \in TaskIds
    /\ tasks[t].pc = "returning"
    /\ tasks' = [tasks EXCEPT ![t] = DoneTask]
    /\ last' = NoOutcome
    /\ UNCHANGED <<pipeline, audio_cache, processing, buffer_queue, objects,
                   has_audio, audio_file_key, claiming, sel, pdfVars, pyVars>>

\* An audio object disappears from the bucket (deleted, expired by a bucket rule).
ObjectLost(k) ==
    /\ pipeline = "backend"
    /\ Settled
    /\ k \in objects
    /\ objects' = objects \ {k}
    /\ last' = NoOutcome
    /\ UNCHANGED <<pipeline, audio_cache, processing, buffer_queue,
                   has_audio, audio_file_key, claiming, tasks, sel, pdfVars, pyVars>>

\* ------------------------------------------------- Redis expiry
\* A variant of set_processing_status that writes the marker with SET: the key
\* stays until it is deleted.
marker_expires_never == FALSE

\* Line 24: SETEX, the key has a time to live.
marker_expires == TRUE

\* set_processing_status writes the marker with SETEX and an expiry of 3600 s
\* (redis_service.py lines 21-24): Redis removes it when the time is up,
\* whatever the server does meanwhile.
MarkerExpires(c) ==
    /\ pipeline = "backend"
    /\ Settled
    /\ marker_expires
    /\ c \in processing
    /\ processing' = processing \ {c}
    /\ last' = NoOutcome
    /\ UNCHANGED <<pipeline, audio_cache, buffer_queue, objects, has_audio,
                   audio_file_key, claiming, tasks, sel, pdfVars, pyVars>>

\* set_audio_cache writes the entry with SETEX and an expiry of 86400 s
\* (lines 11-14).
CacheExpires(c) ==
    /\ pipeline = "backend"
    /\ Settled
    /\ get_audio_cache(c) # NoKey
    /\ audio_cache' = [audio_cache EXCEPT ![c] = NoKey]
    /\ last' = NoOutcome
    /\ UNCHANGED <<pipeline, processing, buffer_queue, objects, has_audio,
                   audio_file_key, claiming, tasks, sel, pdfVars, pyVars>>

\* The server process ends (killed, or restarted by uvicorn's reload): its
\* background tasks, queued or running, are gone; Redis, the database and the
\* bucket keep what they hold.
ProcessDies ==
    /\ pipeline = "backend"
    /\ Settled
    /\ \E t \in TaskIds : tasks[t].pc # "done"
    /\ tasks' = [t \in TaskIds |-> DoneTask]
    /\ claiming' = NoSuchChunk
    /\ last' = NoOutcome
    /\ UNCHANGED <<pipeline, audio_cache, processing, buffer_queue, objects,
                   has_audio, audio_file_key, sel, pdfVars, pyVars>>

\* ------------------------------------------------- apps/python: the tables
\* A chunk id stands for the row's UUID: <<pdfId, index>>.
PendingRow == [status |-> "pending", audioUrl |-> None, error_message |-> None]
NoChunk == <<0, 0>>
ChunkRows == DOMAIN chunks
NumDocs == Cardinality({id[1] : id \in ChunkRows})
Rows(d, n) == {<<d, i>> : i \in 0..(n - 1)}

\* db.query(Chunk).filter(Chunk.index == i): no pdfId in the filter, so .first()
\* is any row of any document with that index.
RowsWithIndex(i) == {id \in ChunkRows : id[2] = i}

\* The numbers of chunks chunk_text cuts the uploaded texts into, in the order
\* of upload.
ChunkCounts == <<3, 2>>

\* ------------------------------------------------- process_chunk
\* pos: the place in the list given to process_chunks_batch, or the
\* current_chunk of the start_next_chunk request.
\* provider: tts_settings.provider; start_next_chunk passes "elevenlabs"
\* (main.py lines 193-198).
CreatedCall(id, origin, pos) ==
    [chunk |-> id, pc |-> "created", origin |-> origin, pos |-> pos, result |-> "none",
     provider |-> "elevenlabs"]
DoneCall == [chunk |-> NoChunk, pc |-> "done", origin |-> "none", pos |-> 0,
             result |-> "none", provider |-> "none"]

CallIds == 1..Len(calls)

\* asyncio runs the first step of a created task (to its first await) before
\* anything registered later: created tasks start in order, ahead of every
\* other handler or continuation.
Created == {k \in CallIds : calls[k].pc = "created"}
Started == Created = {}
Generating(id) == {k \in CallIds : calls[k].pc = "generating" /\ calls[k].chunk = id}

\* A finished call keeps its result only while gather waits for it.
Finished(call, result) ==
    IF call.origin = "batch" THEN [call EXCEPT !.pc = "done", !.result = result]
    ELSE DoneCall

\* A variant of the duplicate check that never finds the chunk.
never_processing(id) == FALSE

\* Lines 31-34: the duplicate check.
already_processing(id) == id \in processing_chunks

\* ------------------------------------------------- TTSProviderFactory
\* tts_providers.py line 195.
get_supported_providers == {"elevenlabs", "polly", "openai", "cartesia", "fallback"}

\* The provider names requests are tried with: the default, the
\* unimplemented one, and one the factory does not know.
ProviderNames == {"elevenlabs", "fallback", "espeak"}

\* A variant of create_provider that falls back to a default adapter for a name
\* it does not know.
create_provider_default(provider_name) ==
    CASE provider_name = "elevenlabs" -> "ElevenLabsProvider"
      [] provider_name = "polly" -> "AWSPollyProvider"
      [] provider_name = "openai" -> "OpenAIProvider"
      [] provider_name = "cartesia" -> "CartesiaProvider"
      [] provider_name = "fallback" -> "FallbackProvider"
      [] OTHER -> "ElevenLabsProvider"

\* Lines 176-190: the adapter class, or the ValueError raised.
create_provider(provider_name) ==
    CASE provider_name = "elevenlabs" -> "ElevenLabsProvider"
      [] provider_name = "polly" -> "AWSPollyProvider"
      [] provider_name = "openai" -> "OpenAIProvider"
      [] provider_name = "cartesia" -> "CartesiaProvider"
      [] provider_name = "fallback" -> "FallbackProvider"
      [] OTHER -> "ValueError"

\* What str(e) is when process_chunk gets no adapter that calls a backend:
\* create_provider raises, or FallbackProvider.generate_audio raises at once
\* (line 170); None for an adapter that does call one.
fails_at_once(provider_name) ==
    CASE create_provider(provider_name) = "ValueError" -> "Unsupported TTS provider"
      [] create_provider(provider_name) = "FallbackProvider" ->
             "Fallback TTS provider not implemented yet"
      [] OTHER -> None

\* Lines 29-59, to the await of generate_audio; or to the return, when nothing
\* is awaited: the duplicate check fails, create_provider raises or the
\* adapter raises without calling out, and the except and finally clauses run
\* in the same step (the commit of line 82 is asked of the database that has
\* just answered the commit of line 41).
CallStart(k) ==
    /\ pipeline \in {"python", "batch"}
    /\ k \in Created
    /\ \A j \in Created : k <= j
    /\ IF already_processing(calls[k].chunk)
       THEN /\ calls' = [calls EXCEPT ![k] = Finished(calls[k], "False")]
            /\ UNCHANGED <<chunks, processing_chunks>>
       ELSE IF fails_at_once(calls[k].provider) # None
       THEN /\ chunks' = [chunks EXCEPT
                   ![calls[k].chunk].status = "error",
                   ![calls[k].chunk].error_message = fails_at_once(calls[k].provider)]
            /\ processing_chunks' = (processing_chunks \cup {calls[k].chunk})
                                        \ {calls[k].chunk}
            /\ calls' = [calls EXCEPT ![k] = Finished(calls[k], "False")]
       ELSE /\ processing_chunks' = processing_chunks \cup {calls[k].chunk}
            /\ chunks' = [chunks EXCEPT ![calls[k].chunk].status = "processing"]
            /\ calls' = [calls EXCEPT ![k].pc = "generating"]
    /\ UNCHANGED <<pipeline, backendVars, batch, sel, pdfVars>>

\* What the rest of the call can meet: the provider raises, upload_audio
\* raises, a commit raises, or nothing does; the provider then returned audio,
\* or zero bytes.
CallOutcomes == {"ok", "empty_audio", "tts_error", "upload_error", "db_error"}

\* A variant of upload_audio that returns no URL.
upload_audio_no_url(outcome) == None

\* Line 62: the URL upload_audio returns for the object it stored, by what the
\* object holds.
upload_audio(outcome) == IF outcome = "empty_audio" THEN "url_empty" ELSE "url"

\* Lines 86-88: the finally clause.
Finally(id) == processing_chunks \ {id}

\* Lines 59-88, from the return of generate_audio.
CallFinish(k, outcome) ==
    /\ pipeline \in {"python", "batch"}
    /\ Started
    /\ k \in CallIds
    /\ calls[k].pc = "generating"
    /\ LET id == calls[k].chunk IN
        /\ chunks' =
              CASE outcome \in {"ok", "empty_audio"} ->
                     [chunks EXCEPT ![id].audioUrl = upload_audio(outcome),
                                    ![id].status = "completed"]
                [] outcome = "db_error" -> chunks
                [] OTHER ->
                     [chunks EXCEPT ![id].status = "error", ![id].error_message = outcome]
        /\ calls' = [calls EXCEPT ![k] =
              Finished(calls[k], CASE outcome \in {"ok", "empty_audio"} -> "True"
                                   [] outcome = "db_error" -> "exception"
                                   [] OTHER -> "False")]
        /\ processing_chunks' = Finally(id)
        /\ batch' = IF calls[k].origin = "batch" /\ outcome \in {"ok", "empty_audio"}
                     THEN [batch EXCEPT !.completed = @ \cup {id}]
                     ELSE batch
    /\ UNCHANGED <<pipeline, backendVars, sel, pdfVars>>

\* ------------------------------------------------- upload_pdf
\* The uploads tried: a file whose name ends in .pdf or not, over 20MB or not,
\* with extractable text or not; a provider header, with an API key or none.
UploadRequests ==
    [pdf_name : BOOLEAN, oversized : BOOLEAN, has_text : BOOLEAN,
     x_tts_provider : ProviderNames, x_tts_api_key : BOOLEAN]

\* main.py lines 53-82: what the body of the try raises before anything is
\* stored: an HTTPException with its status code, the ValueError
\* extract_text_from_pdf raises for a PDF without text (pdf_processor.py line
\* 59), or nothing.
upload_pdf_raises(request) ==
    IF ~request.pdf_name THEN "HTTPException(400)"
    ELSE IF request.oversized THEN "HTTPException(400)"
    ELSE IF request.x_tts_provider # "fallback" /\ ~request.x_tts_api_key
    THEN "HTTPException(400)"
    ELSE IF ~request.has_text THEN "ValueError"
    ELSE None

\* main.py lines 133-135 and 167-169: the handler's except clause. HTTPException
\* is a subclass of Exception: whatever the body raised is caught here and
\* HTTPException(500) is raised in its place.
except_Exception(raised) == IF raised = None THEN "200" ELSE "500"

\* The status code upload_pdf answers with.
upload_pdf_response(request) == except_Exception(upload_pdf_raises(request))

\* main.py lines 53-135. A request the body raises for stores nothing and
\* creates no task; otherwise the PDF and its n chunks are stored and the first
\* chunk's process_chunk task is created (lines 91-123).
UploadPdf(request) ==
    /\ pipeline = "python"
    /\ Started
    /\ NumDocs < Len(ChunkCounts)
    /\ Len(calls) < MaxCalls
    /\ IF upload_pdf_raises(request) # None
       THEN UNCHANGED <<chunks, calls>>
       ELSE LET d == NumDocs + 1
                new == Rows(d, ChunkCounts[d])
            IN  /\ chunks' = [id \in ChunkRows \cup new |->
                                 IF id \in ChunkRows THEN chunks[id] ELSE PendingRow]
                /\ calls' = Append(calls, [CreatedCall(<<d, 0>>, "upload", 0)
                                              EXCEPT !.provider = request.x_tts_provider])
    /\ UNCHANGED <<pipeline, backendVars, processing_chunks, batch, sel, pdfVars>>

\* ------------------------------------------------- get_audio_status
\* main.py lines 154-156: .first() finds no chunk with the index, in any PDF.
get_audio_status_raises(chunk_index) ==
    IF RowsWithIndex(chunk_index) = {} THEN "HTTPException(404)" ELSE None

\* The status code get_audio_status answers with.
get_audio_status_response(chunk_index) ==
    except_Exception(get_audio_status_raises(chunk_index))

\* ------------------------------------------------- start_next_chunk
\* main.py lines 180-212, with next_chunk and after_next_chunk the rows .first()
\* returned (NoChunk: no row).
start_next_targets(next_chunk, after_next_chunk) ==
    IF next_chunk = NoChunk THEN <<>>
    ELSE IF chunks[next_chunk].status = "completed" THEN <<>>
    ELSE IF chunks[next_chunk].status = "processing" THEN <<>>
    ELSE IF after_next_chunk # NoChunk /\ chunks[after_next_chunk].status = "pending"
         THEN <<next_chunk, after_next_chunk>>
         ELSE <<next_chunk>>

First(rows) == IF rows = {} THEN {NoChunk} ELSE rows

StartNextChunk(current_chunk) ==
    /\ pipeline = "python"
    /\ Started
    /\ \E next_chunk \in First(RowsWithIndex(current_chunk + 1)),
          after_next_chunk \in First(RowsWithIndex(current_chunk + 2)) :
        LET targets == start_next_targets(next_chunk, after_next_chunk) IN
        /\ Len(calls) + Len(targets) <= MaxCalls
        /\ calls' = calls \o [j \in 1..Len(targets) |->
                                 CreatedCall(targets[j], "start_next", current_chunk)]
    /\ UNCHANGED <<pipeline, backendVars, chunks, processing_chunks, batch, sel, pdfVars>>

\* ------------------------------------------------- process_chunks_batch
Min(a, b) == IF a < b THEN a ELSE b

\* A variant of the slice that takes the rest of the list.
Slice_rest(b) == (b.i + 1) .. Len(b.chunks)

\* Line 104: chunks[i:i + batch_size], as positions of the list.
Slice(b) == (b.i + 1) .. Min(b.i + b.batch_size, Len(b.chunks))

\* Lines 107-112: the group's coroutines are handed to gather.
Gather(cs, b) ==
    cs \o [j \in 1..Cardinality(Slice(b)) |->
              CreatedCall(b.chunks[b.i + j], "batch", b.i + j)]

BatchCalls == {k \in CallIds : calls[k].origin = "batch"}

\* A variant of line 112 that returns with the first coroutine to finish
\* (asyncio.wait with FIRST_COMPLETED).
GatherReturns_first_completed == \E k \in BatchCalls : calls[k].pc = "done"

\* Line 112: gather returns when every coroutine of the group has finished.
GatherReturns == \A k \in BatchCalls : calls[k].pc = "done"

\* A variant of line 112 with gather's default, return_exceptions=False.
return_exceptions_default == FALSE

\* Line 112: return_exceptions=True, an exception raised by a coroutine comes
\* back as its result.
return_exceptions == TRUE

\* gather raises, and process_chunks_batch with it.
GatherRaises ==
    ~return_exceptions /\ \E k \in BatchCalls : calls[k].result = "exception"

\* The lists tried: every list, repetitions included, of stored chunks.
BatchLists == UNION {[1..m -> ChunkRows] : m \in 0..MaxBatch}
BatchSizes == {1, 2, 3}

\* Lines 101-112: the call, to its first gather (or to its return: no chunks).
BatchStart(list, batch_size) ==
    /\ pipeline = "batch"
    /\ batch.pc = "idle"
    /\ LET b == [pc |-> IF list = <<>> THEN "done" ELSE "gather",
                 chunks |-> list, batch_size |-> batch_size, i |-> 0,
                 successful_count |-> 0, ngroups |-> 0, completed |-> {}]
       IN  /\ batch' = b
           /\ calls' = Gather(calls, b)
    /\ UNCHANGED <<pipeline, backendVars, chunks, processing_chunks, sel, pdfVars>>

\* Lines 112-123: gather has returned; the results are counted; then the
\* sleep, or the return.
BatchCollect ==
    /\ pipeline = "batch"
    /\ Started
    /\ batch.pc = "gather"
    /\ GatherReturns
    /\ batch' = IF GatherRaises THEN [batch EXCEPT !.pc = "raised"]
                 ELSE [batch EXCEPT
          !.successful_count =
              @ + Cardinality({k \in BatchCalls : calls[k].result = "True"}),
          !.ngroups = @ + 1,
          !.pc = IF batch.i + batch.batch_size < Len(batch.chunks)
                 THEN "sleep" ELSE "done"]
    /\ calls' = [k \in CallIds |->
                    IF k \in BatchCalls /\ calls[k].pc = "done" THEN DoneCall
                    ELSE calls[k]]
    /\ UNCHANGED <<pipeline, backendVars, chunks, processing_chunks, sel, pdfVars>>

\* Lines 103-112: the sleep is over, the next group is gathered.
BatchWake ==
    /\ pipeline = "batch"
    /\ Started
    /\ batch.pc = "sleep"
    /\ LET b == [batch EXCEPT !.i = @ + batch.batch_size, !.pc = "gather"]
       IN  /\ batch' = b
           /\ calls' = Gather(calls, b)
    /\ UNCHANGED <<pipeline, backendVars, chunks, processing_chunks, sel, pdfVars>>

\* ------------------------------------------------- apps/backend: process_pdf
\* The documents upload_file has stored, and an id no document has.
DocumentIds == {1, 2}
NoSuchDocument == 0

\* What pdf_service.process_pdf cuts a PDF into: the numbers of chunks tried.
ChunkingResults == {0, 1, 2, 3}

\* A variant of process_pdf's checks that admits a document in any status.
process_pdf_check_any_status(document_id) ==
    IF document_id \notin DocumentIds THEN "404" ELSE "start"

\* routers/pdf.py lines 22-27: the response of process_pdf.
process_pdf_check(document_id) ==
    IF document_id \notin DocumentIds THEN "404"
    ELSE IF document_status[document_id] \notin {"uploaded", "error"} THEN "400"
    ELSE "start"

\* Lines 22-38. A 404 or 400 response changes nothing.
ProcessPdf(document_id) ==
    /\ pipeline = "pdf"
    /\ IF process_pdf_check(document_id) = "start"
       THEN /\ runs < MaxRuns
            /\ document_status' = [document_status EXCEPT ![document_id] = "processing"]
            /\ pdf_tasks' = pdf_tasks \cup {document_id}
            /\ runs' = runs + 1
       ELSE UNCHANGED <<document_status, pdf_tasks, runs>>
    /\ UNCHANGED <<pipeline, backendVars, pyVars, sel, document_chunks>>

\* A variant of enumerate that counts from 1.
enumerate_from_one(document_id, n, run) ==
    {[document_id |-> document_id, chunk_index |-> index, run |-> run] : index \in 1..n}

\* Lines 60-67: the rows added for the n chunks.
enumerate(document_id, n, run) ==
    {[document_id |-> document_id, chunk_index |-> index, run |-> run] :
        index \in 0..(n - 1)}

\* Line 56.
existing_chunks(document_id) ==
    {chunk \in document_chunks : chunk.document_id = document_id}

\* What a run of process_pdf_background can meet: the download returns nothing;
\* process_pdf raises (the except clause records the error); the commit of line
\* 70 raises (its changes are rolled back, the session is unusable and the
\* except clause raises in turn); or n chunks are stored.
PdfOutcomes ==
    {<<"download_failed", 0>>, <<"raised", 0>>, <<"commit_raised", 0>>}
        \cup {<<"chunked", n>> : n \in ChunkingResults}

\* Lines 41-77. The function has no await: it runs through.
ProcessPdfBackground(document_id, outcome) ==
    /\ pipeline = "pdf"
    /\ document_id \in pdf_tasks
    /\ pdf_tasks' = pdf_tasks \ {document_id}
    /\ document_chunks' =
          IF outcome[1] = "chunked"
          THEN (document_chunks \ existing_chunks(document_id))
                   \cup enumerate(document_id, outcome[2], runs)
          ELSE document_chunks
    /\ document_status' =
          [document_status EXCEPT ![document_id] =
              CASE outcome[1] = "chunked" -> "completed"
                [] outcome[1] = "commit_raised" -> @
                [] OTHER -> "error"]
    /\ UNCHANGED <<pipeline, backendVars, pyVars, sel, runs>>

\* ------------------------------------------------- the selector on its own
\* generate_speech called with the providers behaving as o.
GenerateSpeech(o) ==
    /\ pipeline = "selector"
    /\ sel' = <<[o |-> o, result |-> generate_speech(o)]>>
    /\ UNCHANGED <<pipeline, backendVars, pyVars, pdfVars>>

vars == <<pipeline, backendVars, pyVars, sel, pdfVars>>

NoBatch == [pc |-> "idle", chunks |-> <<>>, batch_size |-> 0, i |-> 0,
            successful_count |-> 0, ngroups |-> 0, completed |-> {}]

\* The rows process_chunks_batch is tried on: a stored two-chunk PDF whose
\* first chunk upload_pdf's own process_chunk call has finished with.
CompletedRow == [status |-> "completed", audioUrl |-> "url", error_message |-> None]
FailedRow == [status |-> "error", audioUrl |-> None, error_message |-> "tts_error"]
StoredPdfs ==
    {[id \in Rows(1, 2) |-> IF id[2] = 0 THEN first ELSE PendingRow] :
        first \in {CompletedRow, FailedRow}}

Init ==
    /\ pipeline \in {"backend", "python", "batch", "selector", "pdf"}
    /\ audio_cache = [c \in ChunkIds |-> NoKey]
    /\ processing = {}
    /\ buffer_queue = [d \in Documents |-> <<>>]
    /\ objects = {}
    /\ has_audio = [c \in ChunkIds |-> FALSE]
    /\ audio_file_key = [c \in ChunkIds |-> NoKey]
    /\ claiming = NoSuchChunk
    /\ tasks = <<>>
    /\ last = NoOutcome
    /\ IF pipeline = "batch" THEN chunks \in StoredPdfs ELSE chunks = <<>>
    /\ processing_chunks = {}
    /\ calls = <<>>
    /\ batch = NoBatch
    /\ sel = <<>>
    /\ document_status = [d \in DocumentIds |-> "uploaded"]
    /\ document_chunks = {}
    /\ pdf_tasks = {}
    /\ runs = 0

\* One server process, as start.py runs it. A handler has no await and runs
\* through; a generate_tts_background task or a process_chunk call can be
\* overtaken where it awaits the provider (tts.py line 63, chunk_processor.py
\* line 59), the tasks of one request running one after the other.
Next ==
    \/ \E c \in ChunkIds \cup {NoSuchChunk}, audio_url \in PresignedUrls :
          GenerateTTS(c, audio_url)
    \/ \E ids \in BatchRequests : GenerateBatchTTS(ids)
    \/ \E c \in ChunkIds \cup {NoSuchChunk}, audio_url \in PresignedUrls :
          GetTTSStatus(c, audio_url)
    \/ \E t \in TaskIds : TaskStart(t)
    \/ \E t \in TaskIds : TaskFinish(t)
    \/ \E t \in TaskIds : TaskReturn(t)
    \/ \E k \in objects : ObjectLost(k)
    \/ \E o \in Behaviours : GenerateSpeech(o)
    \/ \E request \in UploadRequests : UploadPdf(request)
    \/ \E current_chunk \in 0..2 : StartNextChunk(current_chunk)
    \/ \E k \in CallIds : CallStart(k)
    \/ \E k \in CallIds, outcome \in CallOutcomes : CallFinish(k, outcome)
    \/ \E list \in BatchLists, batch_size \in BatchSizes :
          BatchStart(list, batch_size)
    \/ BatchCollect
    \/ BatchWake
    \/ \E document_id \in DocumentIds \cup {NoSuchDocument} : ProcessPdf(document_id)
    \/ \E document_id \in DocumentIds, outcome \in PdfOutcomes :
          ProcessPdfBackground(document_id, outcome)

Spec == Init /\ [][Next]_vars

\* Several server instances on one Redis, database and bucket: requests are
\* served and their tasks run side by side, and a generate_tts handler may be
\* overtaken between its GET (line 38) and its SETEX (line 42).
NextMulti ==
    \/ Next
    \/ \E c \in ChunkIds, audio_url \in PresignedUrls : GenerateTTSCheck(c, audio_url)
    \/ GenerateTTSClaim

SpecMulti == Init /\ [][NextMulti]_vars

\* The backend with Redis's clock running and the server process mortal:
\* markers and cache entries expire, the process may end. Redis removes an
\* expired key by itself, and a coroutine that has run its last statement
\* returns: both are weakly fair.
InitExpiry == Init /\ pipeline = "backend"

\* The chunks requested: the last two of document 1 and the one of document 2.
ExpiryRequests == {Len(text_chunks) - 2, Len(text_chunks) - 1, Len(text_chunks)}

NextExpiry ==
    \/ \E c \in ExpiryRequests : GenerateTTS(c, "url") /\ Len(tasks') <= MaxExpiryTasks
    \/ \E t \in TaskIds : TaskStart(t)
    \/ \E t \in TaskIds : TaskFinish(t)
    \/ \E t \in TaskIds : TaskReturn(t)
    \/ \E c \in ChunkIds : MarkerExpires(c)
    \/ \E c \in ChunkIds : CacheExpires(c)
    \/ ProcessDies

SpecExpiry ==
    /\ InitExpiry
    /\ [][NextExpiry]_vars
    /\ \A c \in ChunkIds : WF_vars(MarkerExpires(c))
    /\ WF_vars(\E t \in TaskIds : TaskReturn(t))

\* =================================================== properties
\* The chunk's cache entry names an object the bucket holds (CACHED) / no
\* longer holds.
Cached(c) == get_audio_cache(c) # NoKey /\ file_exists(get_audio_cache(c))
Stale(c) == get_audio_cache(c) # NoKey /\ ~file_exists(get_audio_cache(c))

NewTasks == (Len(tasks) + 1) .. Len(tasks')
NewCalls == (Len(calls) + 1) .. Len(calls')
Returning == {t \in TaskIds : tasks[t].pc = "returning"}

\* C1: of the callers that concurrently try to claim a chunk's in-flight marker
\* exactly one succeeds. A generate_tts handler that has read "no marker"
\* (line 38) goes on to set it (line 42) whatever happened in between, so the
\* property asks that nobody else owns the chunk by then; in process_chunk it
\* asks that a chunk has one owner at most.
C1_OneClaimant ==
    /\ claiming # NoSuchChunk => claiming \notin processing
    /\ \A id \in ChunkRows : Cardinality(Generating(id)) <= 1

\* C2: at most one generation attempt for a given chunk is executing at any
\* time, over any interleaving of single requests, batch requests and prefetch
\* dispatches.
C2_OneAttemptExecuting ==
    /\ \A c \in ChunkIds : Cardinality(Running(c)) <= 1
    /\ \A id \in ChunkRows : Cardinality(Generating(id)) <= 1

\* C3: when a generation attempt for a chunk completes, however it ends, the
\* chunk's in-flight marker is absent: the step that ends
\* generate_tts_background leaves no processing:chunk key for its chunk, the
\* step that ends process_chunk leaves its chunk out of processing_chunks.
C3_MarkerReleased ==
    [][ /\ \A t \in TaskIds :
              tasks[t].pc = "running" /\ tasks'[t].pc = "returning"
                  => tasks[t].chunk \notin processing'
        /\ \A k \in CallIds :
              calls[k].pc = "generating" /\ calls'[k].pc = "done"
                  => calls[k].chunk \notin processing_chunks' ]_vars

\* An attempt has just ended in the except clause, and its marker is gone.
C3_Witness ==
    \E t \in Returning : last.threw /\ tasks[t].chunk \notin processing

\* C4: no step dispatches a generation for a chunk that is CACHED (backend) or
\* 'completed' (UUID-keyed pipeline) when the step is taken.
C4_NoRegeneration ==
    [][ /\ \A t \in NewTasks : ~Cached(tasks'[t].chunk)
        /\ \A k \in NewCalls :
              ~(calls'[k].chunk \in ChunkRows
                  /\ chunks[calls'[k].chunk].status = "completed") ]_vars

\* C5: a cached-result response is given only for an object the bucket holds;
\* a request for a chunk whose cache entry names a missing object starts a
\* fresh generation, in generate_tts and in generate_batch_tts, unless the
\* chunk's in-flight marker exists: then generate_tts answers 409 and
\* generate_batch_tts skips the chunk.
C5_StaleEntryNotServed ==
    \A c \in ChunkIds, audio_url \in PresignedUrls :
        /\ generate_tts_check(c, audio_url) = "cached" => get_audio_cache(c) \in objects
        /\ Stale(c) =>
              /\ generate_tts_check(c, audio_url) =
                    IF c \in processing THEN "409" ELSE "claim"
              /\ batch_accepted({c}) = IF c \in processing THEN {} ELSE {c}

\* C5 as stated: a request for a chunk whose cache entry names a missing
\* object always starts a fresh generation.
C5_StaleEntryAlwaysRegenerated ==
    \A c \in ChunkIds, audio_url \in PresignedUrls :
        Stale(c) => /\ generate_tts_check(c, audio_url) = "claim"
                    /\ batch_accepted({c}) = {c}

\* A request for a chunk with a stale entry has started a generation, which is
\* still queued or running: the next request for it meets the marker.
C5_Witness ==
    \E c \in ChunkIds :
        /\ Stale(c)
        /\ c \in processing
        /\ \E t \in TaskIds : tasks[t].chunk = c /\ tasks[t].pc \in {"queued", "running"}

\* The attempt t has left its chunk CACHED under its own key.
CachedBy(t) ==
    LET c == tasks[t].chunk IN
    /\ get_audio_cache(c) = AudioKey(t)
    /\ file_exists(AudioKey(t))
    /\ has_audio[c]
    /\ audio_file_key[c] = AudioKey(t)
    /\ c \notin processing

\* The primary provider failed and a later provider of the chain gave audio.
FallbackAudio(a) == Truthy(a) /\ a # "together"

ProviderResult(i, o) ==
    CASE i = 1 -> generate_speech_together_sonic(o.together)
      [] i = 2 -> generate_speech_cartesia_direct(o.cartesia)
      [] i = 3 -> generate_speech_eleven_labs_demo(o.demo)

\* C7: generate_speech invokes the providers in the order Together, Cartesia,
\* demo; invokes a provider only after every earlier one gave nothing; invokes
\* none after the first non-empty result; and returns the result of the last
\* provider it invoked.
C7_ChainOrder ==
    \A j \in DOMAIN sel :
        LET o == sel[j].o
            invoked == sel[j].result.calls
            n == Len(invoked)
        IN  /\ n \in 1..Len(Chain)
            /\ \A i \in 1..n : invoked[i] = Chain[i]
            /\ \A i \in 1..(n - 1) : ~Truthy(ProviderResult(i, o))
            /\ n < Len(Chain) => Truthy(ProviderResult(n, o))
            /\ sel[j].result.audio = ProviderResult(n, o)

\* The primary failed, the direct Cartesia call gave audio, the demo provider
\* was not invoked.
C7_Witness ==
    \E j \in DOMAIN sel :
        /\ sel[j].result.calls = <<"together", "cartesia">>
        /\ sel[j].result.audio = "cartesia"
        /\ sel[j].o.demo = "audio"

\* Every provider fails: by an exception or by an error response.
AllFail(o) ==
    /\ o.together = "exception"
    /\ o.cartesia \in {"http_error", "exception"}
    /\ o.demo \in {"http_error", "exception"}

\* C8: if every provider of the chain fails, generate_speech returns no audio.
C8_AllFailNoAudio ==
    \A j \in DOMAIN sel : AllFail(sel[j].o) => ~Truthy(sel[j].result.audio)

\* C9: the step of a request that starts generation for the chunk with index i
\* of a document adds prefetch tasks for exactly the chunks of that document
\* with index i+1 or i+2 that have no cache entry; start_next_chunk for
\* current_chunk i creates process_chunk calls only for chunks with index i+1
\* or i+2.
C9_PrefetchWindow ==
    [][ /\ \A t \in NewTasks :
              tasks'[t].origin = "direct" =>
                  LET c == tasks'[t].chunk IN
                  {tasks'[u].chunk : u \in {v \in NewTasks : tasks'[v].origin = "prefetch"}}
                      = {n \in ChunkIds :
                           /\ text_chunks[n].document_id = text_chunks[c].document_id
                           /\ text_chunks[n].chunk_index - text_chunks[c].chunk_index
                                 \in {1, 2}
                           /\ audio_cache[n] = NoKey}
        /\ \A k \in NewCalls :
              calls'[k].origin = "start_next" =>
                  calls'[k].chunk[2] - calls'[k].pos \in {1, 2} ]_vars

\* The request for the chunk with index 0 of the four-chunk document has added
\* tasks for the chunks with index 1 and 2, and none for index 3.
C9_Witness ==
    /\ Len(tasks) = 3
    /\ tasks[1] = QueuedTask(1, "direct", 1)
    /\ tasks[2] = QueuedTask(2, "prefetch", 1)
    /\ tasks[3] = QueuedTask(3, "prefetch", 1)

Ceil(k, w) == (k + w - 1) \div w

\* C10: process_chunks_batch over K chunks with width W works through
\* ceil(K/W) groups; the group being gathered is the next W positions of the
\* list (fewer at its end), in list order; and while a group is gathered or
\* the call sleeps or has returned, no process_chunk call of an earlier group
\* is unfinished.
C10_GroupsInOrder ==
    LET K == Len(batch.chunks)
        W == batch.batch_size
        live == {k \in BatchCalls : calls[k].pc # "done"}
    IN  /\ batch.pc = "gather" =>
              /\ batch.i = batch.ngroups * W
              /\ batch.i < K
              /\ {calls[k].pos : k \in BatchCalls}
                    = {p \in 1..K : batch.i < p /\ p <= batch.i + W}
              /\ \A k \in BatchCalls : calls[k].chunk = batch.chunks[calls[k].pos]
              /\ \A k, l \in BatchCalls : k < l => calls[k].pos < calls[l].pos
        /\ batch.pc = "sleep" => live = {} /\ batch.ngroups * W < K
        /\ batch.pc = "done" => live = {} /\ batch.ngroups = Ceil(K, W)

\* A call over three chunks with width two has returned after two groups.
C10_Witness ==
    /\ batch.pc = "done"
    /\ Len(batch.chunks) = 3
    /\ batch.batch_size = 2
    /\ batch.ngroups = 2

C12_CountsCompletedChunks ==
    batch.pc = "done" => batch.successful_count = Cardinality(batch.completed)

\* C13: a generate_tts request for a chunk whose marker exists and that has no
\* valid cached audio is answered 409 and changes nothing: it is not one of
\* the steps that add tasks (a chunk's own task is added only while the chunk
\* has no marker, prefetch tasks only along with it), and a step that adds no
\* task and advances none leaves markers, cache and records as they were.
C13_DuplicateChangesNothing ==
    [][ /\ \A c \in ChunkIds, audio_url \in PresignedUrls :
              c \in processing /\ ~(Cached(c) /\ audio_url # None)
                  => generate_tts_check(c, audio_url) = "409"
        /\ \A t \in NewTasks :
              /\ tasks'[t].origin = "direct" => tasks'[t].chunk \notin processing
              /\ tasks'[t].origin = "prefetch" =>
                    /\ tasks'[t].first \in NewTasks
                    /\ tasks'[tasks'[t].first].origin = "direct"
        /\ tasks' = tasks =>
              /\ processing' = processing
              /\ audio_cache' = audio_cache
              /\ has_audio' = has_audio
              /\ audio_file_key' = audio_file_key ]_vars

\* A chunk's attempt is running under its marker: a request for the chunk now
\* is answered 409.
C13_Witness ==
    \E c \in ChunkIds :
        /\ c \in processing
        /\ Running(c) # {}
        /\ generate_tts_check(c, "url") = "409"

\* The status get_tts_status reports follows cache, bucket and marker.
StatusFollowsState(c, audio_url) ==
    LET r == get_tts_status(c, audio_url) IN
    /\ r.status = "completed" <=> Cached(c)
    /\ r.status = "processing" <=> ~Cached(c) /\ c \in processing
    /\ r.status = "not_generated" <=> ~Cached(c) /\ c \notin processing

\* C14: for an existing chunk get_tts_status reports 'completed' exactly when
\* a cache entry exists and the bucket holds its object, otherwise
\* 'processing' exactly when the marker exists, otherwise 'not_generated';
\* 'completed' carries what get_presigned_url returned, which is no URL when
\* signing failed; the other two carry none.
C14_StatusReport ==
    \A c \in ChunkIds, audio_url \in PresignedUrls :
        /\ StatusFollowsState(c, audio_url)
        /\ get_tts_status(c, audio_url).audio_url =
              IF Cached(c) THEN audio_url ELSE None

\* C14 as stated: 'completed' always comes with an audio URL.
C14_CompletedHasUrl ==
    \A c \in ChunkIds, audio_url \in PresignedUrls :
        /\ StatusFollowsState(c, audio_url)
        /\ get_tts_status(c, audio_url).status = "completed"
              => get_tts_status(c, audio_url).audio_url # None

\* A chunk whose cached object is gone and that is not in flight is reported
\* 'not_generated'.
C14_Witness ==
    \E c \in ChunkIds :
        /\ Stale(c)
        /\ c \notin processing
        /\ get_tts_status(c, "url").status = "not_generated"

\* C15: the count generate_batch_tts reports is the number of chunks it set
\* the marker and added a task for.
C15_ReportsAccepted ==
    \A chunk_ids \in BatchRequests :
        batch_rows(chunk_ids) # {}
            => batch_reported(chunk_ids) = Cardinality(batch_accepted(chunk_ids))

\* The attempt that has just ended got no audio from generate_speech.
AllProvidersFailed == ~Truthy(last.audio)

\* C16: when an attempt fails because all providers failed, the chunk is in
\* the error state afterwards and no audio cache entry exists for it, a stale
\* one included.
C16_FailureRecorded ==
    \A t \in Returning :
        AllProvidersFailed =>
            /\ get_audio_cache(tasks[t].chunk) = NoKey
            /\ get_tts_status(tasks[t].chunk, "url").status = "error"

\* C17: when synthesis succeeds and the upload fails, the attempt writes no
\* cache entry, does not mark the record, clears the marker, and leaves the
\* chunk in the error state.
C17_UploadFailureRecorded ==
    \A t \in Returning :
        Truthy(last.audio) /\ ~last.upload =>
            /\ get_audio_cache(tasks[t].chunk) # AudioKey(t)
            /\ audio_file_key[tasks[t].chunk] # AudioKey(t)
            /\ tasks[t].chunk \notin processing
            /\ get_tts_status(tasks[t].chunk, "url").status = "error"

\* C18: no object is uploaded and no chunk is completed from an empty payload.
C18_EmptyIsFailure ==
    /\ \A t \in Returning : last.audio = Empty => ~last.upload
    /\ \A id \in ChunkRows : chunks[id].audioUrl # upload_audio("empty_audio")

\* C19: a chunk whose generated bytes are the placeholder of
\* _generate_dummy_audio is not recorded as a chunk with provider audio is.
C19_PlaceholderNotRecorded ==
    \A t \in Returning : last.audio = _generate_dummy_audio => ~CachedBy(t)

\* C20: what blocks a fresh request for a chunk is an attempt still under way,
\* never what an ended attempt left: a marker exists only while a task for its
\* chunk is queued or running, a row is 'processing' only while a
\* process_chunk call for it is under way.
C20_NothingLeftToBlock ==
    /\ \A c \in ChunkIds :
          c \in processing =>
              \E t \in TaskIds : tasks[t].chunk = c /\ tasks[t].pc \in {"queued", "running"}
    /\ \A id \in ChunkRows : chunks[id].status = "processing" => Generating(id) # {}

\* C21: a prefetch task is added only for a chunk that is neither cached nor
\* in flight, and the chunk's in-flight marker is set by the request that adds
\* the task, so that a later direct request for the chunk is answered 409.
C21_PrefetchClaimsMarker ==
    [][\A t \in NewTasks :
          tasks'[t].origin = "prefetch" =>
              /\ ~Cached(tasks'[t].chunk)
              /\ tasks'[t].chunk \notin processing
              /\ tasks'[t].chunk \in processing']_vars

\* C22: from the moment its task is added until it finishes, a generation
\* attempt's chunk has the in-flight marker (get_tts_status then answers
\* 'processing' unless the chunk is cached).
C22_MarkerWhileExecuting ==
    \A t \in TaskIds :
        tasks[t].pc \in {"queued", "running"} => tasks[t].chunk \in processing

\* C23: the generations one request dispatches are for chunks of the document
\* of the chunk the request is about: the prefetch tasks of generate_tts are of
\* the requested chunk's document, and the calls start_next_chunk creates for
\* index i are of the document whose chunk i the request concerns, whichever
\* stored document with a chunk i that is.
C23_WithinDocument ==
    [][/\ \A t, u \in NewTasks :
             tasks'[t].origin = "direct" /\ tasks'[u].origin = "prefetch" =>
                 text_chunks[tasks'[u].chunk].document_id =
                     text_chunks[tasks'[t].chunk].document_id
       /\ \A k \in NewCalls :
             calls'[k].origin = "start_next" =>
                 \A id \in ChunkRows :
                     id[2] = calls'[k].pos => id[1] = calls'[k].chunk[1]]_vars

\* C24: a request adds the task of the requested chunk before any prefetch
\* task, and adds prefetch tasks only together with it: in generate_tts the
\* first task added is the requested chunk's, claimed by this request, and the
\* others are prefetch tasks; in start_next_chunk the first call created is the
\* next chunk's, which was neither completed nor being processed, and the second
\* the one after it.
C24_RequestedChunkFirst ==
    [][/\ \A u \in NewTasks :
             tasks'[u].origin = "prefetch" =>
                 LET t == Len(tasks) + 1 IN
                 /\ t < u
                 /\ tasks'[t].origin = "direct"
                 /\ \E audio_url \in PresignedUrls :
                       generate_tts_check(tasks'[t].chunk, audio_url) = "claim"
                 /\ tasks'[u].chunk \in next_chunks(tasks'[t].chunk)
       /\ \A j \in NewCalls :
             calls'[j].origin = "start_next" =>
                 LET k == Len(calls) + 1 IN
                 /\ calls'[k].origin = "start_next"
                 /\ calls'[k].chunk[2] = calls'[k].pos + 1
                 /\ chunks[calls'[k].chunk].status \notin {"completed", "processing"}
                 /\ j > k => calls'[j].chunk[2] = calls'[j].pos + 2]_vars

\* Tasks of one generate_tts request, the requested chunk's and a prefetch
\* task, are queued while another chunk is cached; or a start_next_chunk request
\* has created the calls for the next chunk and the one after it.
C24_Witness ==
    \/ /\ \E t, u \in TaskIds :
             /\ tasks[t].origin = "direct" /\ tasks[u].origin = "prefetch"
             /\ tasks[u].first = t
       /\ \E c \in ChunkIds : Cached(c)
    \/ \E k, j \in CallIds :
          /\ calls[k].origin = "start_next" /\ calls[j].origin = "start_next"
          /\ calls[k].pos = calls[j].pos
          /\ calls[j].chunk[2] = calls[k].chunk[2] + 1

\* C25: a chunk that one request has queued as a prefetch target is not queued
\* as a prefetch target again: while its prefetch task waits, no request that
\* generate_tts would accept has the chunk among the rows it gives a task.
C25_NotQueuedAgain ==
    \A t \in TaskIds :
        tasks[t].origin = "prefetch" /\ tasks[t].pc = "queued" =>
            \A c \in ChunkIds :
                generate_tts_check(c, "url") = "claim" =>
                    tasks[t].chunk \notin prefetch_targets(c)

\* C26: a prefetch task, whatever generate_speech, the upload and the record
\* update do in it, runs after the requested chunk's own task has ended, writes
\* nothing of another chunk (cache entry, record, marker), touches no other
\* task, and returns as a task that met no failure does.
C26_PrefetchBestEffort ==
    [][\A t \in TaskIds :
          tasks[t].origin = "prefetch" /\ tasks[t].pc = "running"
              /\ tasks'[t].pc # "running" =>
                 /\ tasks[tasks[t].first].pc = "done"
                 /\ tasks'[t].pc = "returning"
                 /\ \A u \in TaskIds \ {t} : tasks'[u] = tasks[u]
                 /\ \A c \in ChunkIds \ {tasks[t].chunk} :
                       /\ audio_cache'[c] = audio_cache[c]
                       /\ has_audio'[c] = has_audio[c]
                       /\ audio_file_key'[c] = audio_file_key[c]
                       /\ (c \in processing') = (c \in processing)]_vars

\* A prefetch task has ended in the except clause.
C26_Witness ==
    \E t \in Returning : tasks[t].origin = "prefetch" /\ last.threw

\* C27: a chunk's status changes only from 'pending' to 'processing', from
\* 'processing' to 'completed' or 'error', and from 'error' to 'processing';
\* a 'completed' chunk keeps its status.
C27_StatusMoves ==
    [][\A id \in ChunkRows :
          chunks'[id].status # chunks[id].status =>
              <<chunks[id].status, chunks'[id].status>> \in
                  {<<"pending", "processing">>, <<"processing", "completed">>,
                   <<"processing", "error">>, <<"error", "processing">>}]_vars

\* C28: the chunks stored for a document have the indices 0..n-1, each once, and
\* were all inserted by one run of process_pdf_background (backend); the rows
\* upload_pdf stored for a PDF have the indices 0..n-1 (UUID-keyed pipeline).
C28_DenseIndices ==
    /\ \A d \in DocumentIds :
          LET rows == existing_chunks(d) IN
          /\ {chunk.chunk_index : chunk \in rows} = 0..(Cardinality(rows) - 1)
          /\ \A r1, r2 \in rows : r1.run = r2.run
    /\ \A id \in ChunkRows :
          {row[2] : row \in {r \in ChunkRows : r[1] = id[1]}} =
              0..(Cardinality({r \in ChunkRows : r[1] = id[1]}) - 1)

\* A document whose first run ended in an error has been processed again and
\* has its chunks; the other document has not been processed.
C28_Witness ==
    \E d \in DocumentIds :
        /\ document_status[d] = "completed"
        /\ \E chunk \in existing_chunks(d) : chunk.run >= 2 /\ chunk.chunk_index >= 1
        /\ \A e \in DocumentIds \ {d} : document_status[e] = "uploaded"

\* The process_chunk calls of the process_chunks_batch call that have been
\* handed to gather and have not finished.
InProgress == {k \in BatchCalls : calls[k].pc \in {"created", "generating"}}

\* C29: while process_chunks_batch runs with width batch_size, at most
\* batch_size of its process_chunk calls are in progress.
C29_BoundedConcurrency ==
    batch.pc # "idle" => Cardinality(InProgress) <= batch.batch_size

\* A list longer than the width is being processed and as many calls as the
\* width allows, two or more, await their provider.
C29_Witness ==
    /\ batch.pc = "gather"
    /\ Len(batch.chunks) > batch.batch_size
    /\ batch.batch_size >= 2
    /\ Cardinality({k \in InProgress : calls[k].pc = "generating"}) = batch.batch_size

\* A provider-level failure: no credential, a non-200 response, an exception
\* (network error, timeout) raised by the client.
ProviderFailure(b) == b \in {"nokey", "http_error", "exception"}

C32_MarkerEventuallyGone ==
    \A c \in ChunkIds :
        (c \in processing) ~>
            (c \notin processing /\ generate_tts_check(c, "url") # "409")

\* The process has ended and left a marker no task will delete.
C32_Witness ==
    \E c \in processing : \A t \in TaskIds : tasks[t].pc = "done"

\* C33: a request for a chunk whose record says it has audio, under a key the
\* bucket still holds, adds no generation task for it, whether or not the
\* chunk's cache entry is still there.
C33_RecordServes ==
    [][\A t \in NewTasks :
          tasks'[t].origin = "direct" =>
              ~(/\ has_audio[tasks'[t].chunk]
                /\ file_exists(audio_file_key[tasks'[t].chunk]))]_vars

\* C34: a step that writes a cache entry for a chunk is the step of a running
\* task of that chunk that has stored the object under the entry's key, not in
\* the bucket before, and has set the record's has_audio and audio_file_key to
\* it.
C34_CacheAfterUpload ==
    [][\A c \in ChunkIds :
          audio_cache'[c] # audio_cache[c] /\ audio_cache'[c] # NoKey =>
              \E t \in Running(c) :
                  /\ audio_cache'[c] = AudioKey(t)
                  /\ AudioKey(t) \notin objects
                  /\ AudioKey(t) \in objects'
                  /\ has_audio'[c]
                  /\ audio_file_key'[c] = AudioKey(t)
                  /\ last'.upload]_vars

\* A task has uploaded its audio, updated the record and written the cache
\* entry, all naming the same key.
C34_Witness ==
    \E t \in Returning :
        /\ last.upload /\ ~last.threw
        /\ get_audio_cache(tasks[t].chunk) = AudioKey(t)
        /\ audio_file_key[tasks[t].chunk] = AudioKey(t)
        /\ file_exists(AudioKey(t))

\* C35: a chunk record with has_audio set names its audio object (backend); a
\* chunk with status 'completed' has its audioUrl, a chunk with status 'error'
\* its error_message (UUID-keyed pipeline).
C35_RecordConsistent ==
    /\ \A c \in ChunkIds : has_audio[c] => audio_file_key[c] # NoKey
    /\ \A id \in ChunkRows :
          /\ chunks[id].status = "completed" => chunks[id].audioUrl # None
          /\ chunks[id].status = "error" => chunks[id].error_message # None

\* Of the chunks of an uploaded PDF, one has been completed and another has
\* failed.
C35_Witness ==
    /\ pipeline = "python"
    /\ \E id \in ChunkRows : chunks[id].status = "completed"
    /\ \E id \in ChunkRows : chunks[id].status = "error"

\* C36: a process_chunk call that finds its chunk in processing_chunks returns
\* False and changes nothing: the owner's entry stays, the chunk's row and the
\* bucket are as they were, and no provider is called.
C36_DuplicateCallInert ==
    [][\A k \in CallIds :
          (/\ pipeline \in {"python", "batch"}
           /\ k \in Created
           /\ calls[k].chunk \in processing_chunks
           /\ calls'[k] # calls[k])
          => /\ processing_chunks' = processing_chunks
             /\ chunks' = chunks
             /\ objects' = objects
             /\ calls'[k].pc = "done"
             /\ calls[k].origin = "batch" => calls'[k].result = "False"]_vars

\* A call of a batch has returned False at the duplicate check while the
\* earlier call that owns the chunk is still waiting for its provider.
C36_Witness ==
    \E j, k \in CallIds :
        /\ j < k
        /\ calls[j].pc = "generating"
        /\ calls[k].pc = "done"
        /\ calls[k].result = "False"
        /\ calls[k].chunk = calls[j].chunk
        /\ calls[j].chunk \in processing_chunks
        /\ chunks[calls[j].chunk].status = "processing"

\* C37: a processing run is started only for a document in status 'uploaded'
\* or 'error' that has no run waiting, and moves it to 'processing'; a request
\* for a document in 'processing' or 'completed' starts nothing and changes
\* neither the document nor its chunks; a document with a run is 'processing'.
C37_RunStarts ==
    [][/\ runs' # runs =>
            \E d \in DocumentIds :
                /\ document_status[d] \in {"uploaded", "error"}
                /\ d \notin pdf_tasks
                /\ document_status' = [document_status EXCEPT ![d] = "processing"]
                /\ pdf_tasks' = pdf_tasks \cup {d}
                /\ runs' = runs + 1
                /\ document_chunks' = document_chunks
       /\ \A d \in DocumentIds :
            (d \notin pdf_tasks /\ document_status[d] \in {"processing", "completed"})
            => /\ document_status'[d] = document_status[d]
               /\ existing_chunks(d)' = existing_chunks(d)
               /\ d \notin pdf_tasks'
       /\ \A d \in pdf_tasks' : document_status'[d] = "processing"]_vars

\* After an earlier run, a document is 'processing' with its run waiting while
\* a document is 'completed': requests of both kinds can arrive.
C37_Witness ==
    /\ runs >= 2
    /\ \E d \in pdf_tasks : document_status[d] = "processing"
    /\ \E d \in DocumentIds : document_status[d] = "completed"

\* ------------------------------------------------- document processing, scheduled
\* The document pipeline on its own, with the scheduling the server gives it:
\* Starlette runs a request's background task once the response is sent, so a
\* waiting run of process_pdf_background is eventually executed. What the run
\* meets is not the scheduler's to choose.
InitPdf == Init /\ pipeline = "pdf"

NextPdf ==
    \/ \E document_id \in DocumentIds \cup {NoSuchDocument} : ProcessPdf(document_id)
    \/ \E document_id \in DocumentIds : \E outcome \in PdfOutcomes :
          ProcessPdfBackground(document_id, outcome)

SpecPdf ==
    /\ InitPdf
    /\ [][NextPdf]_vars
    /\ \A document_id \in DocumentIds :
          WF_vars(\E outcome \in PdfOutcomes : ProcessPdfBackground(document_id, outcome))

\* C38: a document in status 'processing' eventually is 'completed' or
\* 'error'.
C38_ProcessingEnds ==
    \A d \in DocumentIds :
        (document_status[d] = "processing")
            ~> (document_status[d] \in {"completed", "error"})

\* The second half of C38: status 'completed' is set only in the step that
\* replaces the document's rows by the new chunk set.
C38_CompletedWithChunks ==
    [][\A d \in DocumentIds :
          (document_status[d] # "completed" /\ document_status'[d] = "completed")
          => \E n \in ChunkingResults :
                existing_chunks(d)' = enumerate(d, n, runs)]_vars

\* The chunk indices status requests are made with.
StatusIndices == 0..2

\* C39: a client error the UUID-keyed API detects is answered with its own
\* status: 400 for an upload the handler raises for, 404 for the status of a
\* chunk index no chunk has.
C39_ClientErrorsKeepStatus ==
    pipeline = "python" =>
        /\ \A request \in UploadRequests :
              upload_pdf_raises(request) # None => upload_pdf_response(request) = "400"
        /\ \A chunk_index \in StatusIndices :
              get_audio_status_raises(chunk_index) # None
              => get_audio_status_response(chunk_index) = "404"
====
